---- MODULE Spec2Model ----
(***************************************************************************)
(* PromtailToAlloyMigrator (src/src/alloy_migrator/__init__.py): the       *)
(* translation of a parsed Promtail document into the ordered list of      *)
(* Alloy components and the text emitted from it.                          *)
(*                                                                         *)
(* Encoding of the Python values:                                          *)
(*  - an input mapping that the code only tests and indexes by key is a    *)
(*    TLA+ record whose DOMAIN is the set of keys present;                 *)
(*  - an input mapping the code iterates (labels, expressions, a relabel   *)
(*    rule) keeps its item order: a sequence of <<key, value>> pairs;      *)
(*  - a value stored in a component's config is tagged with its Python     *)
(*    type: Str (a str, as its sequence of lines), Lst (a list), Dct (a    *)
(*    dict, as its sequence of <<key, value>> items), NoneVal (None);      *)
(*  - a str that may span lines is the non-empty sequence of its lines     *)
(*    ("" is <<"">>), so '\n'.join is concatenation of line sequences.     *)
(***************************************************************************)
EXTENDS Integers, Sequences, FiniteSets, TLC

VARIABLES
    promtail_config,    \* self.promtail_config: the parsed input document
    alloy_components,   \* self.alloy_components: the built component list
    component_counter,  \* self.component_counter: counters of _get_component_id
    pc,                 \* position of migrate()
    idx,                \* 0-based index of the loop migrate() is in
    result,             \* what migrate() returned (NoDocument until it returns)
    origin              \* history: origin[k] is the input entry alloy_components[k] was built from

vars == <<promtail_config, alloy_components, component_counter, pc, idx, result, origin>>

----------------------------------------------------------------------------
(* Bounds of the input documents *)

MaxClients == 2     \* longest clients list
MaxJobs == 2        \* longest scrape_configs list
MaxStatic == 2      \* longest static_configs list of a job
MaxRelabel == 2     \* longest relabel_configs list of a journal job
MaxStages == 3      \* longest pipeline_stages list drawn from StageChoices
MaxDepth == 2       \* deepest nesting of match stages in a match stage
MaxLabels == 3      \* largest labels map of a journal

----------------------------------------------------------------------------
(* Python values *)

NoneVal == [t |-> "none"]
Str(lines) == [t |-> "str", v |-> lines]
S(s) == Str(<<s>>)
Lst(items) == [t |-> "list", v |-> items]
Dct(items) == [t |-> "dict", v |-> items]

\* bool(value)
Truthy(val) ==
    CASE val.t = "none" -> FALSE
      [] val.t = "str" -> val.v # <<"">>
      [] OTHER -> val.v # <<>>

\* key in d, for a dict kept as its ordered items
Has(items, key) == \E i \in 1..Len(items) : items[i][1] = key

\* d[key]
Get(items, key) == items[CHOOSE i \in 1..Len(items) : items[i][1] = key][2]

\* d[key] = val: an existing key keeps its position
Put(items, key, val) ==
    IF Has(items, key)
    THEN [i \in 1..Len(items) |-> IF items[i][1] = key THEN <<key, val>> ELSE items[i]]
    ELSE Append(items, <<key, val>>)

\* d.update(other)
RECURSIVE Update(_, _)
Update(items, other) ==
    IF other = <<>> THEN items
    ELSE Update(Put(items, other[1][1], other[1][2]), Tail(other))

\* record.get(key, default), for a mapping kept as a record
GetOr(rec, key, default) == IF key \in DOMAIN rec THEN rec[key] ELSE default

\* the items {k: str} of a str -> str mapping, tagged
RECURSIVE StrItems(_)
StrItems(pairs) ==
    IF pairs = <<>> THEN <<>>
    ELSE <<(<<pairs[1][1], S(pairs[1][2])>>)>> \o StrItems(Tail(pairs))

----------------------------------------------------------------------------
(* str helpers: a str is the sequence of its lines *)

\* the escapes json.dumps applies to the characters of a line (quote, backslash)
RECURSIVE Escape(_)
Escape(s) ==
    IF Len(s) = 0 THEN ""
    ELSE IF Len(s) = 1 THEN
        (IF s = "\"" THEN "\\\"" ELSE IF s = "\\" THEN "\\\\" ELSE s)
    ELSE LET half == Len(s) \div 2
         IN  Escape(SubSeq(s, 1, half)) \o Escape(SubSeq(s, half + 1, Len(s)))

\* the lines of a str joined by the escape of the newline
RECURSIVE EscapeLines(_)
EscapeLines(lines) ==
    IF Len(lines) = 1 THEN Escape(lines[1])
    ELSE Escape(lines[1]) \o "\\n" \o EscapeLines(Tail(lines))

\* json.dumps(s) of a one-line str
Quote(s) == "\"" \o Escape(s) \o "\""

\* s.startswith(prefix)
StartsWith(s, prefix) ==
    Len(s) >= Len(prefix) /\ SubSeq(s, 1, Len(prefix)) = prefix

\* ' ' * n
RECURSIVE Spaces(_)
Spaces(n) == IF n = 0 THEN "" ELSE " " \o Spaces(n - 1)

\* sep.join(parts) of one-line strs
RECURSIVE JoinStr(_, _)
JoinStr(sep, parts) ==
    IF parts = <<>> THEN ""
    ELSE IF Len(parts) = 1 THEN parts[1]
    ELSE parts[1] \o sep \o JoinStr(sep, Tail(parts))

\* f'{prefix}{text}'
Prefix(prefix, text) == <<prefix \o text[1]>> \o Tail(text)

\* '\n'.join(parts), parts a non-empty list of strs
RECURSIVE JoinLines(_)
JoinLines(parts) ==
    IF Len(parts) = 1 THEN parts[1]
    ELSE parts[1] \o JoinLines(Tail(parts))

\* sep.join(parts), sep without a newline
RECURSIVE Join(_, _)
Join(sep, parts) ==
    IF parts = <<>> THEN <<"">>
    ELSE IF Len(parts) = 1 THEN parts[1]
    ELSE LET head == parts[1]
             rest == Join(sep, Tail(parts))
         IN  SubSeq(head, 1, Len(head) - 1)
                 \o <<head[Len(head)] \o sep \o rest[1]>>
                 \o Tail(rest)

----------------------------------------------------------------------------
(* Stage Translator, structured mode *)

\* _convert_stage_to_dict
ConvertStageToDict(stage) ==
    IF "regex" \in DOMAIN stage THEN
        Dct(<< <<"type", S("stage.regex")>>,
               <<"expression", S(stage.regex.expression)>> >>)
    ELSE IF "json" \in DOMAIN stage THEN
        Dct(<< <<"type", S("stage.json")>>,
               <<"expressions", Dct(StrItems(GetOr(stage.json, "expressions", <<>>)))>>,
               <<"source", S(GetOr(stage.json, "source", ""))>> >>)
    ELSE IF "labels" \in DOMAIN stage THEN
        Dct(<< <<"type", S("stage.labels")>>,
               <<"values", Dct(StrItems(stage.labels))>> >>)
    ELSE IF "output" \in DOMAIN stage THEN
        Dct(<< <<"type", S("stage.output")>>,
               <<"source", S(stage.output.source)>> >>)
    ELSE IF "template" \in DOMAIN stage THEN
        Dct(<< <<"type", S("stage.template")>>,
               <<"source", S(stage.template.source)>>,
               <<"template", S(stage.template.template)>> >>)
    ELSE IF "match" \in DOMAIN stage THEN NoneVal
    ELSE IF "metrics" \in DOMAIN stage THEN NoneVal
    ELSE NoneVal

\* a loop that returns at the first stage it cannot convert
RECURSIVE ConvertPipelineStagesForProcess_StopsAtSkip(_)
ConvertPipelineStagesForProcess_StopsAtSkip(stages) ==
    IF stages = <<>> THEN <<>>
    ELSE LET stage_config == ConvertStageToDict(stages[1])
         IN  IF Truthy(stage_config)
             THEN <<stage_config>> \o ConvertPipelineStagesForProcess_StopsAtSkip(Tail(stages))
             ELSE <<>>

\* _convert_pipeline_stages_for_process
RECURSIVE ConvertPipelineStagesForProcess(_)
ConvertPipelineStagesForProcess(stages) ==
    IF stages = <<>> THEN <<>>
    ELSE LET stage_config == ConvertStageToDict(stages[1])
         IN  (IF Truthy(stage_config) THEN <<stage_config>> ELSE <<>>)
                 \o ConvertPipelineStagesForProcess(Tail(stages))

----------------------------------------------------------------------------
(* Stage Translator, inline (legacy) mode *)

\* the label_parts of the labels branch of _convert_single_stage
RECURSIVE LabelParts(_)
LabelParts(labels) ==
    IF labels = <<>> THEN <<>>
    ELSE LET k == labels[1][1]
             v == labels[1][2]
         IN  <<(IF v = "" THEN <<k \o " = \"\"">> ELSE <<k \o " = " \o Quote(v)>>)>>
                 \o LabelParts(Tail(labels))

\* the expressions loop of _convert_json_stage
RECURSIVE ExpressionLines(_)
ExpressionLines(expressions) ==
    IF expressions = <<>> THEN <<>>
    ELSE <<"    " \o expressions[1][1] \o " = \"" \o expressions[1][2] \o "\"">>
             \o ExpressionLines(Tail(expressions))

\* _convert_json_stage
ConvertJsonStage(json_config) ==
    <<"json {">>
        \o (IF "source" \in DOMAIN json_config
            THEN <<"  source = \"" \o json_config.source \o "\"">> ELSE <<>>)
        \o (IF "expressions" \in DOMAIN json_config
            THEN <<"  expressions = {">> \o ExpressionLines(json_config.expressions) \o <<"  }">>
            ELSE <<>>)
        \o <<"}">>

\* _convert_metrics_stage
ConvertMetricsStage(metrics) ==
    <<"metrics { /* Metrics configuration requires manual review */ }">>

RECURSIVE ConvertSingleStage(_)
RECURSIVE ConvertMatchStage(_)
RECURSIVE NestedStages(_)

\* the loop over match['stages'] of _convert_match_stage
NestedStages(stages) ==
    IF stages = <<>> THEN <<>>
    ELSE LET nested_stage == ConvertSingleStage(stages[1])
         IN  (IF nested_stage # <<"">> THEN <<Prefix("    stage.", nested_stage)>> ELSE <<>>)
                 \o NestedStages(Tail(stages))

\* a conversion that opens the stage block whether or not a nested stage was kept
ConvertMatchStage_AlwaysOpensStage(match) ==
    LET nested_stages == IF "stages" \in DOMAIN match THEN NestedStages(match.stages) ELSE <<>>
        parts ==
            << <<"match {">> >>
            \o (IF "selector" \in DOMAIN match
                THEN << <<"  selector = " \o Quote(match.selector)>> >> ELSE <<>>)
            \o (IF "pipeline_name" \in DOMAIN match
                THEN << <<"  pipeline_name = " \o Quote(match.pipeline_name)>> >> ELSE <<>>)
            \o (IF "action" \in DOMAIN match
                THEN << <<"  action = \"" \o match.action \o "\"">> >> ELSE <<>>)
            \o << <<"  stage {">> >> \o nested_stages \o << <<"  }">> >>
            \o << <<"}">> >>
    IN  JoinLines(parts)

\* _convert_match_stage
ConvertMatchStage(match) ==
    LET nested_stages == IF "stages" \in DOMAIN match THEN NestedStages(match.stages) ELSE <<>>
        parts ==
            << <<"match {">> >>
            \o (IF "selector" \in DOMAIN match
                THEN << <<"  selector = " \o Quote(match.selector)>> >> ELSE <<>>)
            \o (IF "pipeline_name" \in DOMAIN match
                THEN << <<"  pipeline_name = " \o Quote(match.pipeline_name)>> >> ELSE <<>>)
            \o (IF "action" \in DOMAIN match
                THEN << <<"  action = \"" \o match.action \o "\"">> >> ELSE <<>>)
            \o (IF nested_stages # <<>>
                THEN << <<"  stage {">> >> \o nested_stages \o << <<"  }">> >>
                ELSE <<>>)
            \o << <<"}">> >>
    IN  JoinLines(parts)

\* _convert_single_stage
ConvertSingleStage(stage) ==
    IF "match" \in DOMAIN stage THEN ConvertMatchStage(stage.match)
    ELSE IF "regex" \in DOMAIN stage THEN
        <<"regex { expression = " \o Quote(stage.regex.expression) \o " }">>
    ELSE IF "json" \in DOMAIN stage THEN ConvertJsonStage(stage.json)
    ELSE IF "labels" \in DOMAIN stage THEN
        IF stage.labels = <<>> THEN <<"labels {}">>
        ELSE <<"labels { " \o Join(", ", LabelParts(stage.labels))[1] \o " }">>
    ELSE IF "metrics" \in DOMAIN stage THEN ConvertMetricsStage(stage.metrics)
    ELSE IF "template" \in DOMAIN stage THEN
        <<"template { source = \"" \o stage.template.source \o "\", template = "
              \o Quote(stage.template.template) \o " }">>
    ELSE IF "output" \in DOMAIN stage THEN
        <<"output { source = \"" \o stage.output.source \o "\" }">>
    ELSE <<"">>

\* the loop of _convert_pipeline_stages
RECURSIVE InlineStages(_)
InlineStages(stages) ==
    IF stages = <<>> THEN <<>>
    ELSE LET stage_str == ConvertSingleStage(stages[1])
         IN  (IF stage_str # <<"">> THEN <<stage_str>> ELSE <<>>)
                 \o InlineStages(Tail(stages))

\* _convert_pipeline_stages
ConvertPipelineStages(stages) ==
    IF stages = <<>> THEN <<"">>
    ELSE LET alloy_stages == InlineStages(stages)
         IN  IF alloy_stages # <<>>
             THEN Prefix("stage.", Join(" | stage.", alloy_stages))
             ELSE <<"">>

----------------------------------------------------------------------------
(* Component Graph Builder *)

\* _get_component_id: the id it returns and the counters it leaves; nothing in
\* migrate() calls it, so component_counter stays empty
GetComponentId(counter, component_type) ==
    LET n == GetOr(counter, component_type, 0) + 1
    IN  [id |-> component_type \o "_" \o ToString(n),
         counter |-> (component_type :> n) @@ counter]

\* a sink id that counts the later sinks from 2
ClientComponentId_OneBased(i) ==
    IF i = 0 THEN "default" ELSE "client_" \o ToString(i + 1)

\* component_id of the client at 0-based position i
ClientComponentId(i) ==
    IF i = 0 THEN "default" ELSE "client_" \o ToString(i)

\* the component one iteration of _process_clients builds (it needs client['url'])
ClientComponent(client, i) ==
    LET component_id == ClientComponentId(i)
        endpoint == << <<"url", S(client.url)>> >>
        auth == Dct(<< <<"username", S(GetOr(client.basic_auth, "username", ""))>>,
                       <<"password", S(GetOr(client.basic_auth, "password", ""))>> >>)
    IN  [type |-> "loki.write",
         id |-> component_id,
         config |-> << <<"endpoint",
                         Dct(IF "basic_auth" \in DOMAIN client
                             THEN Put(endpoint, "basic_auth", auth)
                             ELSE endpoint)>>,
                       <<"external_labels", Dct(<<>>)>> >>]

\* the path_targets loop of _process_static_configs
RECURSIVE PathTargets(_, _)
PathTargets(targets, labels) ==
    IF targets = <<>> THEN <<>>
    ELSE <<Dct(Update(<< <<"__address__", S(targets[1])>> >>, StrItems(labels)))>>
             \o PathTargets(Tail(targets), labels)

\* a file_match_id that suffixes the first entry too
FileMatchId_AlwaysSuffixed(job_name, i) ==
    job_name \o "_" \o ToString(i)

\* the file_match_id of the static_configs entry at 0-based position i
FileMatchId(job_name, i) ==
    IF i > 0 THEN job_name \o "_" \o ToString(i) ELSE job_name

\* the two components one iteration of _process_static_configs appends
StaticConfigComponents(config, job_name, i) ==
    LET static_config == config.static_configs[i + 1]
        targets == GetOr(static_config, "targets", <<>>)
        labels == GetOr(static_config, "labels", <<>>)
        file_match_id == FileMatchId(job_name, i)
        file_match_component ==
            [type |-> "local.file_match",
             id |-> file_match_id,
             config |-> << <<"path_targets", Lst(PathTargets(targets, labels))>> >>]
        base == << <<"targets", S("local.file_match." \o file_match_id \o ".targets")>>,
                   <<"forward_to", Lst(<<S("loki.write.default.receiver")>>)>> >>
        stages == IF "pipeline_stages" \in DOMAIN config
                  THEN Str(ConvertPipelineStages(config.pipeline_stages))
                  ELSE Str(<<"">>)
        source_file_component ==
            [type |-> "loki.source.file",
             id |-> file_match_id,
             config |-> IF Truthy(stages) THEN Put(base, "stages", stages) ELSE base]
    IN  <<file_match_component, source_file_component>>

\* _process_static_configs: what it appends to alloy_components
RECURSIVE StaticConfigsFrom(_, _, _)
StaticConfigsFrom(config, job_name, i) ==
    IF i >= Len(GetOr(config, "static_configs", <<>>)) THEN <<>>
    ELSE StaticConfigComponents(config, job_name, i)
             \o StaticConfigsFrom(config, job_name, i + 1)

ProcessStaticConfigs(config, job_name) == StaticConfigsFrom(config, job_name, 0)

\* the rule _convert_relabel_configs builds from one relabel config
RelabelRule(config) ==
    (IF "source_labels" \in DOMAIN config
     THEN << <<"source_labels", Lst([k \in 1..Len(config.source_labels) |-> S(config.source_labels[k])])>> >>
     ELSE <<>>)
    \o (IF "target_label" \in DOMAIN config THEN << <<"target_label", S(config.target_label)>> >> ELSE <<>>)
    \o (IF "regex" \in DOMAIN config THEN << <<"regex", S(config.regex)>> >> ELSE <<>>)
    \o (IF "replacement" \in DOMAIN config THEN << <<"replacement", S(config.replacement)>> >> ELSE <<>>)
    \o (IF "action" \in DOMAIN config THEN << <<"action", S(config.action)>> >> ELSE <<>>)

\* _convert_relabel_configs
ConvertRelabelConfigs(relabel_configs) ==
    Lst([k \in 1..Len(relabel_configs) |-> Dct(RelabelRule(relabel_configs[k]))])

\* needs_process of _process_journal_config
NeedsProcess(config) ==
    "pipeline_stages" \in DOMAIN config /\ config.pipeline_stages # <<>>

\* forward_to of _process_journal_config, decided before the components are built
JournalForwardTo(config, job_name) ==
    IF NeedsProcess(config)
    THEN "loki.process." \o job_name \o ".receiver"
    ELSE "loki.write.default.receiver"

\* a relabel component wired to the default sink whatever the journal's target was
RelabelComponent_ToDefaultSink(job_name, forward_to, relabel_rules) ==
    [type |-> "loki.relabel",
     id |-> job_name \o "_relabel",
     config |-> << <<"forward_to", Lst(<<S("loki.write.default.receiver")>>)>>,
                   <<"_rules", relabel_rules>> >>]

\* the loki.relabel component of _process_journal_config
RelabelComponent(job_name, forward_to, relabel_rules) ==
    [type |-> "loki.relabel",
     id |-> job_name \o "_relabel",
     config |-> << <<"forward_to", Lst(<<S(forward_to)>>)>>,
                   <<"_rules", relabel_rules>> >>]

\* the loki.process component of _process_journal_config
ProcessComponent(config, job_name) ==
    [type |-> "loki.process",
     id |-> job_name,
     config |-> << <<"forward_to", Lst(<<S("loki.write.default.receiver")>>)>>,
                   <<"stages", Lst(ConvertPipelineStagesForProcess(config.pipeline_stages))>> >>]

\* the journal source appended before its relabel component
JournalAppends_JournalFirst(relabel, journal, process) ==
    journal \o relabel \o process

\* the order of the three appends of _process_journal_config
JournalAppends(relabel, journal, process) ==
    relabel \o journal \o process

\* _process_journal_config: what it appends to alloy_components
ProcessJournalConfig(config, job_name) ==
    LET journal_config == GetOr(config, "journal", <<>>)
        forward_to == JournalForwardTo(config, job_name)
        c0 == << <<"forward_to", Lst(<<S(forward_to)>>)>> >>
        c1 == IF "max_age" \in DOMAIN journal_config
              THEN Put(c0, "max_age", S(journal_config.max_age)) ELSE c0
        c2 == IF "labels" \in DOMAIN journal_config
              THEN Put(c1, "labels", Dct(StrItems(journal_config.labels))) ELSE c1
        relabel_rules == IF "relabel_configs" \in DOMAIN config
                         THEN ConvertRelabelConfigs(config.relabel_configs)
                         ELSE Lst(<<>>)
        with_relabel == Truthy(relabel_rules)
        c3 == IF with_relabel
              THEN Put(c2, "forward_to",
                       Lst(<<S("loki.relabel." \o job_name \o "_relabel.receiver")>>))
              ELSE c2
        journal_component == [type |-> "loki.source.journal", id |-> job_name, config |-> c3]
    IN  JournalAppends(
            IF with_relabel THEN <<RelabelComponent(job_name, forward_to, relabel_rules)>> ELSE <<>>,
            <<journal_component>>,
            IF NeedsProcess(config) THEN <<ProcessComponent(config, job_name)>> ELSE <<>>)

\* an iteration that takes a job without static_configs for a journal job
ScrapeConfigComponents_JournalByDefault(config) ==
    LET job_name == GetOr(config, "job_name", "unknown")
    IN  IF "static_configs" \in DOMAIN config
        THEN ProcessStaticConfigs(config, job_name)
                 \o (IF "journal" \in DOMAIN config
                     THEN ProcessJournalConfig(config, job_name) ELSE <<>>)
        ELSE ProcessJournalConfig(config, job_name)

\* one iteration of the loop of _process_scrape_configs: what it appends
ScrapeConfigComponents(config) ==
    LET job_name == GetOr(config, "job_name", "unknown")
    IN  (IF "static_configs" \in DOMAIN config
         THEN ProcessStaticConfigs(config, job_name) ELSE <<>>)
            \o (IF "journal" \in DOMAIN config
                THEN ProcessJournalConfig(config, job_name) ELSE <<>>)

----------------------------------------------------------------------------
(* Value Formatter and Config Emitter *)

\* json.dumps(value): one line
RECURSIVE JsonDumps(_)
JsonDumps(val) ==
    CASE val.t = "none" -> "null"
      [] val.t = "str" -> "\"" \o EscapeLines(val.v) \o "\""
      [] val.t = "list" ->
            "[" \o JoinStr(", ", [k \in 1..Len(val.v) |-> JsonDumps(val.v[k])]) \o "]"
      [] val.t = "dict" ->
            "{" \o JoinStr(", ", [k \in 1..Len(val.v) |->
                                   Quote(val.v[k][1]) \o ": " \o JsonDumps(val.v[k][2])]) \o "}"

\* a component reference, as the scalar branch of _format_config_value tests it
IsReference(val) ==
    /\ val.t = "str"
    /\ \/ StartsWith(val.v[1], "local.")
       \/ StartsWith(val.v[1], "loki.")
       \/ StartsWith(val.v[1], "prometheus.")

\* a component reference, as the forward_to branch of _format_config_value tests it
IsForwardReference(val) ==
    /\ val.t = "str"
    /\ \/ StartsWith(val.v[1], "loki.")
       \/ StartsWith(val.v[1], "prometheus.")

\* 'key = dumps(value)' for each item, with a prefix and a suffix
ItemLines(items, prefix, suffix) ==
    [k \in 1..Len(items) |-> prefix \o items[k][1] \o " = " \o JsonDumps(items[k][2]) \o suffix]

\* the lines of one stage in the stages branch of _format_config_value
RECURSIVE StageFieldLines(_, _)
StageFieldLines(items, indent_str) ==
    IF items = <<>> THEN <<>>
    ELSE LET k == items[1][1]
             v == items[1][2]
         IN  (IF k = "type" THEN <<>>
              ELSE IF v.t = "dict"
              THEN <<indent_str \o "  " \o k \o " = {">>
                       \o ItemLines(v.v, indent_str \o "    ", "")
                       \o <<indent_str \o "  }">>
              ELSE <<indent_str \o "  " \o k \o " = " \o JsonDumps(v)>>)
                 \o StageFieldLines(Tail(items), indent_str)

RECURSIVE StagesLines(_, _)
StagesLines(stages, indent_str) ==
    IF stages = <<>> THEN <<>>
    ELSE LET stage == stages[1]
         IN  (IF stage.t = "dict" /\ Has(stage.v, "type")
              THEN <<indent_str \o Get(stage.v, "type").v[1] \o " {">>
                       \o StageFieldLines(stage.v, indent_str)
                       \o <<indent_str \o "}", "">>
              ELSE <<>>)
                 \o StagesLines(Tail(stages), indent_str)

\* the records of the multiple-items branch of _format_config_value
RECURSIVE RecordLines(_, _)
RecordLines(records, indent_str) ==
    IF records = <<>> THEN <<>>
    ELSE <<indent_str \o "  {">>
             \o ItemLines(records[1].v, indent_str \o "    ", ",")
             \o <<indent_str \o "  },">>
             \o RecordLines(Tail(records), indent_str)

\* the refs of the forward_to branch of _format_config_value
ForwardRefs(items) ==
    [k \in 1..Len(items) |->
        IF IsForwardReference(items[k]) THEN items[k].v[1] ELSE JsonDumps(items[k])]

RECURSIVE FormatConfigValue(_, _, _)
RECURSIVE FormatItems(_, _)

\* the loop of the block branch of _format_config_value
FormatItems(items, indent) ==
    IF items = <<>> THEN <<>>
    ELSE FormatConfigValue(items[1][1], items[1][2], indent) \o FormatItems(Tail(items), indent)

\* a formatter without the labels-class case: every non-empty dict is a block
FormatConfigValue_LabelsAsBlock(key, value, indent) ==
    LET indent_str == Spaces(indent)
    IN  IF key = "stages" /\ value.t = "list" THEN StagesLines(value.v, indent_str)
        ELSE IF value.t = "dict" THEN
            IF value.v # <<>>
            THEN <<indent_str \o key \o " {">>
                     \o FormatItems(value.v, indent + 2)
                     \o <<indent_str \o "}">>
            ELSE <<indent_str \o key \o " = {}">>
        ELSE IF value.t = "list" THEN
            IF \A k \in 1..Len(value.v) : value.v[k].t = "dict" THEN
                IF Len(value.v) = 1
                THEN <<indent_str \o key \o " = [{">>
                         \o ItemLines(value.v[1].v, indent_str \o "  ", ",")
                         \o <<indent_str \o "}]">>
                ELSE <<indent_str \o key \o " = [">>
                         \o RecordLines(value.v, indent_str)
                         \o <<indent_str \o "]">>
            ELSE IF key = "forward_to"
            THEN <<indent_str \o key \o " = [" \o JoinStr(", ", ForwardRefs(value.v)) \o "]">>
            ELSE <<indent_str \o key \o " = " \o JsonDumps(value)>>
        ELSE IF IsReference(value) THEN Prefix(indent_str \o key \o " = ", value.v)
        ELSE <<indent_str \o key \o " = " \o JsonDumps(value)>>

\* _format_config_value
FormatConfigValue(key, value, indent) ==
    LET indent_str == Spaces(indent)
    IN  IF key = "stages" /\ value.t = "list" THEN StagesLines(value.v, indent_str)
        ELSE IF value.t = "dict" THEN
            IF key \in {"labels", "external_labels"} THEN
                IF value.v # <<>>
                THEN <<indent_str \o key \o " = {",
                       indent_str \o "  " \o JoinStr(", ", ItemLines(value.v, "", "")) \o ",",
                       indent_str \o "}">>
                ELSE <<indent_str \o key \o " = {}">>
            ELSE IF value.v # <<>>
            THEN <<indent_str \o key \o " {">>
                     \o FormatItems(value.v, indent + 2)
                     \o <<indent_str \o "}">>
            ELSE <<indent_str \o key \o " = {}">>
        ELSE IF value.t = "list" THEN
            IF \A k \in 1..Len(value.v) : value.v[k].t = "dict" THEN
                IF Len(value.v) = 1
                THEN <<indent_str \o key \o " = [{">>
                         \o ItemLines(value.v[1].v, indent_str \o "  ", ",")
                         \o <<indent_str \o "}]">>
                ELSE <<indent_str \o key \o " = [">>
                         \o RecordLines(value.v, indent_str)
                         \o <<indent_str \o "]">>
            ELSE IF key = "forward_to"
            THEN <<indent_str \o key \o " = [" \o JoinStr(", ", ForwardRefs(value.v)) \o "]">>
            ELSE <<indent_str \o key \o " = " \o JsonDumps(value)>>
        ELSE IF IsReference(value) THEN Prefix(indent_str \o key \o " = ", value.v)
        ELSE <<indent_str \o key \o " = " \o JsonDumps(value)>>

\* the rule blocks of _format_component
RECURSIVE RuleLines(_)
RuleLines(rules) ==
    IF rules = <<>> THEN <<>>
    ELSE <<"  rule {">> \o ItemLines(rules[1].v, "    ", "") \o <<"  }", "">>
             \o RuleLines(Tail(rules))

\* the loop over config.items() of _format_component
RECURSIVE ComponentConfigLines(_)
ComponentConfigLines(config) ==
    IF config = <<>> THEN <<>>
    ELSE (IF config[1][1] = "_rules" THEN RuleLines(config[1][2].v)
          ELSE FormatConfigValue(config[1][1], config[1][2], 2))
             \o ComponentConfigLines(Tail(config))

\* _format_component
FormatComponent(component) ==
    <<component.type \o " \"" \o component.id \o "\" {">>
        \o ComponentConfigLines(component.config)
        \o <<"}">>

\* the config_lines of _generate_alloy_config
RECURSIVE ConfigLines(_)
ConfigLines(components) ==
    IF components = <<>> THEN <<>>
    ELSE FormatComponent(components[1]) \o <<"">> \o ConfigLines(Tail(components))

\* _generate_alloy_config
GenerateAlloyConfigText(components) ==
    IF components = <<>> THEN <<"">> ELSE ConfigLines(components)

\* migrate() has not returned a document
NoDocument == <<>>

----------------------------------------------------------------------------
(* Input documents *)

SeqsUpTo(set, n) == UNION {[1..k -> set] : k \in 0..n}

GoodClient == [url |-> "http://sink/loki/api/v1/push"]
AuthClient == [url |-> "http://sink2/push", basic_auth |-> [username |-> "user"]]
BadClient == [basic_auth |-> [username |-> "user", password |-> "pw"]]
ClientChoices == {GoodClient, AuthClient, BadClient}

RegexStage == [regex |-> [expression |-> "^(?P<lvl>\\w+) \"(.*)\"$"]]
JsonStage == [json |-> [expressions |-> << <<"lvl", "level">> >>]]
LabelsStage == [labels |-> << <<"lvl", "">>, <<"app", "x">> >>]
OutputStage == [output |-> [source |-> "msg"]]
TemplateStage == [template |-> [source |-> "lvl", template |-> "{{ ToLower .Value }}"]]
MetricsStage == [metrics |-> [lines_total |-> [type |-> "Counter"]]]
TimestampStage == [timestamp |-> [source |-> "ts", format |-> "RFC3339"]]
MatchStage(stages) == [match |-> [selector |-> "{app=\"x\"}", stages |-> stages]]

RelabelConfig == [source_labels |-> <<"__journal__systemd_unit">>, target_label |-> "unit"]
FullJournal == [max_age |-> "12h", labels |-> << <<"job", "systemd-journal">> >>]

\* the static_configs entry at 1-based position k: with labels, then without
StaticEntry(k) ==
    IF k % 2 = 1
    THEN [targets |-> <<"localhost:9080">>, labels |-> << <<"env", "prod">> >>]
    ELSE [targets |-> <<"/var/log/a.log", "/var/log/b.log">>]

StaticConfigsOfLen(m) == [k \in 1..m |-> StaticEntry(k)]

MixedStages ==
    <<RegexStage, MetricsStage, MatchStage(<<MetricsStage, JsonStage>>), TimestampStage, LabelsStage>>

\* the documents over given client lists and job lists; either key may be absent
Documents(clientLists, jobLists) ==
    {[clients |-> c, scrape_configs |-> j] : c \in clientLists, j \in jobLists}
        \cup {[scrape_configs |-> j] : j \in jobLists}
        \cup {[clients |-> c] : c \in clientLists}

StaticJobs ==
    {[job_name |-> "a", static_configs |-> StaticConfigsOfLen(m)] : m \in 0..MaxStatic}
        \cup {[job_name |-> "a_1", static_configs |-> StaticConfigsOfLen(1)],
              [job_name |-> "a", static_configs |-> StaticConfigsOfLen(1),
               pipeline_stages |-> MixedStages, relabel_configs |-> <<RelabelConfig>>]}

JournalJobs ==
    {[job_name |-> "a", journal |-> FullJournal],
     [job_name |-> "a", journal |-> FullJournal,
      pipeline_stages |-> MixedStages, relabel_configs |-> <<RelabelConfig>>]}

OtherJobs ==
    {[job_name |-> "a", relabel_configs |-> <<RelabelConfig>>],
     [static_configs |-> StaticConfigsOfLen(1), journal |-> <<>>]}

JobChoices == StaticJobs \cup JournalJobs \cup OtherJobs

AllDocuments ==
    Documents(SeqsUpTo(ClientChoices, MaxClients), SeqsUpTo(JobChoices, MaxJobs))

----------------------------------------------------------------------------
(* migrate() *)

Clients == GetOr(promtail_config, "clients", <<>>)
ScrapeConfigs == GetOr(promtail_config, "scrape_configs", <<>>)

\* __init__, on a document of the given set
InitOn(documents) ==
    /\ promtail_config \in documents
    /\ alloy_components = <<>>
    /\ component_counter = <<>>
    /\ pc = "process_clients"
    /\ idx = 0
    /\ result = NoDocument
    /\ origin = <<>>

Init == InitOn(AllDocuments)

\* an iteration that skips a client without 'url' instead of raising
ProcessClient_SkipsBadSink ==
    /\ pc = "process_clients"
    /\ idx < Len(Clients)
    /\ LET client == Clients[idx + 1]
       IN  IF "url" \in DOMAIN client
           THEN /\ alloy_components' = Append(alloy_components, ClientComponent(client, idx))
                /\ origin' = Append(origin, <<"clients", idx>>)
           ELSE UNCHANGED <<alloy_components, origin>>
    /\ idx' = idx + 1
    /\ UNCHANGED <<promtail_config, component_counter, pc, result>>

\* one iteration of the loop of _process_clients; a client without 'url' raises
\* KeyError, which nothing in migrate() catches
ProcessClient ==
    /\ pc = "process_clients"
    /\ idx < Len(Clients)
    /\ LET client == Clients[idx + 1]
       IN  IF "url" \in DOMAIN client
           THEN /\ alloy_components' = Append(alloy_components, ClientComponent(client, idx))
                /\ origin' = Append(origin, <<"clients", idx>>)
                /\ idx' = idx + 1
                /\ pc' = pc
           ELSE /\ pc' = "failed"
                /\ UNCHANGED <<alloy_components, origin, idx>>
    /\ UNCHANGED <<promtail_config, component_counter, result>>

\* _process_clients returns and _process_scrape_configs starts
ProcessClientsReturn ==
    /\ pc = "process_clients"
    /\ idx = Len(Clients)
    /\ pc' = "process_scrape_configs"
    /\ idx' = 0
    /\ UNCHANGED <<promtail_config, alloy_components, component_counter, result, origin>>

\* an iteration that puts what it builds at the front of the list
ProcessScrapeConfig_Prepends ==
    /\ pc = "process_scrape_configs"
    /\ idx < Len(ScrapeConfigs)
    /\ LET built == ScrapeConfigComponents(ScrapeConfigs[idx + 1])
       IN  /\ alloy_components' = built \o alloy_components
           /\ origin' = [k \in 1..Len(built) |-> <<"scrape_configs", idx>>] \o origin
    /\ idx' = idx + 1
    /\ UNCHANGED <<promtail_config, component_counter, pc, result>>

\* the job as an iteration would leave it if it decorated the entry's own
\* labels map (path_target = labels) instead of a new path-target
DecoratedInPlace(config) ==
    IF "static_configs" \notin DOMAIN config THEN config
    ELSE [config EXCEPT !.static_configs =
             [k \in 1..Len(@) |->
                 LET targets == GetOr(@[k], "targets", <<>>)
                 IN  IF "labels" \in DOMAIN @[k] /\ targets # <<>>
                     THEN [@[k] EXCEPT !.labels = Put(@, "__address__", targets[Len(targets)])]
                     ELSE @[k]]]

\* an iteration that writes the decoration into the document's labels maps
ProcessScrapeConfig_DecoratesInPlace ==
    /\ pc = "process_scrape_configs"
    /\ idx < Len(ScrapeConfigs)
    /\ LET built == ScrapeConfigComponents(ScrapeConfigs[idx + 1])
       IN  /\ alloy_components' = alloy_components \o built
           /\ origin' = origin \o [k \in 1..Len(built) |-> <<"scrape_configs", idx>>]
    /\ promtail_config' =
          [promtail_config EXCEPT !.scrape_configs[idx + 1] = DecoratedInPlace(@)]
    /\ idx' = idx + 1
    /\ UNCHANGED <<component_counter, pc, result>>

\* one iteration of the loop of _process_scrape_configs
ProcessScrapeConfig ==
    /\ pc = "process_scrape_configs"
    /\ idx < Len(ScrapeConfigs)
    /\ LET built == ScrapeConfigComponents(ScrapeConfigs[idx + 1])
       IN  /\ alloy_components' = alloy_components \o built
           /\ origin' = origin \o [k \in 1..Len(built) |-> <<"scrape_configs", idx>>]
    /\ idx' = idx + 1
    /\ UNCHANGED <<promtail_config, component_counter, pc, result>>

\* _process_scrape_configs returns; migrate() returns _generate_alloy_config()
GenerateAlloyConfig ==
    /\ pc = "process_scrape_configs"
    /\ idx = Len(ScrapeConfigs)
    /\ result' = GenerateAlloyConfigText(alloy_components)
    /\ pc' = "done"
    /\ UNCHANGED <<promtail_config, alloy_components, component_counter, idx, origin>>

Next ==
    \/ ProcessClient
    \/ ProcessClientsReturn
    \/ ProcessScrapeConfig
    \/ GenerateAlloyConfig

Spec == Init /\ [][Next]_vars

----------------------------------------------------------------------------
(* Documents of journal jobs: every combination of pipeline_stages (absent, *)
(* empty, all skipped, mixed) and relabel_configs (absent, 0..MaxRelabel    *)
(* rules), next to each other and to a static job.                          *)

\* the relabel_configs entry at 1-based position k: an empty rule, then a full one
RelabelAt(k) == IF k % 2 = 1 THEN <<>> ELSE RelabelConfig

RelabelConfigsOfLen(m) == [k \in 1..m |-> RelabelAt(k)]

WithStages(job, stageLists) ==
    {job} \cup {job @@ [pipeline_stages |-> st] : st \in stageLists}

WithRelabel(job) ==
    {job} \cup {job @@ [relabel_configs |-> RelabelConfigsOfLen(m)] : m \in 0..MaxRelabel}

JournalJobChoices ==
    UNION {WithRelabel(j) :
             j \in WithStages([job_name |-> "a", journal |-> FullJournal],
                              {<<>>, <<MetricsStage>>, MixedStages})}
        \cup {[job_name |-> "a", journal |-> <<>>, relabel_configs |-> <<RelabelConfig>>],
              [job_name |-> "a", static_configs |-> StaticConfigsOfLen(1)]}

JournalDocuments ==
    {[clients |-> c, scrape_configs |-> j] :
        c \in SeqsUpTo({GoodClient}, MaxClients), j \in SeqsUpTo(JournalJobChoices, MaxJobs)}

InitJournal == InitOn(JournalDocuments)

SpecJournal == InitJournal /\ [][Next]_vars

----------------------------------------------------------------------------
(* Documents of one job, static or journal, over every pipeline_stages list *)
(* of up to MaxStages stages, alone or followed by a second job.            *)

StageChoices ==
    {RegexStage, JsonStage, LabelsStage, OutputStage, TemplateStage, MetricsStage,
     TimestampStage, MatchStage(<<>>), MatchStage(<<MetricsStage, RegexStage>>)}

StagedJobs ==
    UNION {{[job_name |-> "a", static_configs |-> StaticConfigsOfLen(1), pipeline_stages |-> st],
            [job_name |-> "a", journal |-> FullJournal, pipeline_stages |-> st]} :
             st \in SeqsUpTo(StageChoices, MaxStages)}

FollowerJob == [job_name |-> "b", static_configs |-> StaticConfigsOfLen(1)]

StageDocuments ==
    {[clients |-> <<GoodClient>>, scrape_configs |-> <<j>> \o f] :
        j \in StagedJobs, f \in {<<>>, <<FollowerJob>>}}

InitStages == InitOn(StageDocuments)

SpecStages == InitStages /\ [][Next]_vars

----------------------------------------------------------------------------
(* Documents of one static job "app" over every static_configs list of up  *)
(* to MaxStatic entries: targets absent, one or two; labels absent, one, or *)
(* two with a label named __address__.                                     *)

EnvLabels == << <<"env", "prod">> >>
AddressLabels == << <<"__address__", "other:1">>, <<"env", "prod">> >>

TargetChoices == {<<"localhost:9080">>, <<"/var/log/a.log", "/var/log/b.log">>}

StaticEntryChoices ==
    {[targets |-> t, labels |-> l] : t \in TargetChoices, l \in {EnvLabels, AddressLabels}}
        \cup {[targets |-> t] : t \in TargetChoices}
        \cup {[labels |-> l] : l \in {EnvLabels, AddressLabels}}
        \cup {<<>>}

AppJobs ==
    {[job_name |-> "app", static_configs |-> s] : s \in SeqsUpTo(StaticEntryChoices, MaxStatic)}
        \cup {[job_name |-> "app", pipeline_stages |-> <<RegexStage>>,
               static_configs |-> <<[targets |-> <<"localhost:9080">>, labels |-> EnvLabels]>>]}

StaticDocuments ==
    {[clients |-> c, scrape_configs |-> <<j>> \o f] :
        c \in SeqsUpTo({GoodClient}, MaxClients), j \in AppJobs, f \in {<<>>, <<FollowerJob>>}}

InitStatic == InitOn(StaticDocuments)

SpecStatic == InitStatic /\ [][Next]_vars

----------------------------------------------------------------------------
(* Documents of one static job whose pipeline_stages is one match stage:   *)
(* every subset of selector, pipeline_name and action, over nested stage   *)
(* lists that nest match stages up to MaxDepth deep and mix in a supported *)
(* stage (regex) and an unrecognized one (timestamp).                      *)

MatchFields == {"selector", "pipeline_name", "action"}
MatchFieldValue == [selector |-> "{app=\"x\"}", pipeline_name |-> "p", action |-> "drop"]
FieldsOf(F) == [f \in F |-> MatchFieldValue[f]]

LeafLists == {<<>>, <<TimestampStage>>, <<RegexStage>>, <<TimestampStage, RegexStage>>}

RECURSIVE NestedLists(_)
RECURSIVE NestedMatches(_)

\* the nested match stages whose own stages nest up to d deep, or without stages
NestedMatches(d) ==
    {[match |-> FieldsOf(F) @@ [stages |-> st]] :
        F \in {{}, {"selector", "action"}}, st \in NestedLists(d)}
        \cup {[match |-> FieldsOf({"pipeline_name"})]}

\* the stage lists that nest match stages up to d deep
NestedLists(d) ==
    IF d = 0 THEN {<<>>}
    ELSE LeafLists
             \cup UNION {{<<m>>, <<TimestampStage, m>>, <<m, RegexStage>>} : m \in NestedMatches(d - 1)}

MatchChoices ==
    {FieldsOf(F) @@ [stages |-> st] : F \in SUBSET MatchFields, st \in NestedLists(MaxDepth)}
        \cup {FieldsOf(F) : F \in SUBSET MatchFields}

MatchDocuments ==
    {[clients |-> <<GoodClient>>,
      scrape_configs |-> <<[job_name |-> "app", static_configs |-> StaticConfigsOfLen(1),
                            pipeline_stages |-> <<[match |-> m]>>]>>] : m \in MatchChoices}

InitMatch == InitOn(MatchDocuments)

SpecMatch == InitMatch /\ [][Next]_vars

----------------------------------------------------------------------------
(* Documents of journal jobs over every labels map of 0..MaxLabels labels, *)
(* or without one, behind sinks with and without basic_auth.               *)

LabelNames == <<"a", "b", "c", "d", "e">>
LabelValues == <<"x", "y", "z", "u", "v">>

\* the labels map of size n: a = x, b = y, c = z, ...
LabelsOfSize(n) == [k \in 1..n |-> <<LabelNames[k], LabelValues[k]>>]

LabelledJobs ==
    {[job_name |-> "a", journal |-> [labels |-> LabelsOfSize(n)]] : n \in 0..MaxLabels}
        \cup {[job_name |-> "a", journal |-> [max_age |-> "12h"]]}

LabelDocuments ==
    {[clients |-> c, scrape_configs |-> j] :
        c \in SeqsUpTo({GoodClient, AuthClient}, MaxClients),
        j \in SeqsUpTo(LabelledJobs, MaxJobs)}

InitLabels == InitOn(LabelDocuments)

SpecLabels == InitLabels /\ [][Next]_vars

----------------------------------------------------------------------------
(* Documents whose jobs carry every nested part a translation reads:       *)
(* static_configs with labels, a journal with labels, relabel rules and    *)
(* pipeline stages, behind sinks with and without url.                     *)

FullJobs ==
    {[job_name |-> "a", static_configs |-> StaticConfigsOfLen(1),
      pipeline_stages |-> MixedStages, relabel_configs |-> <<RelabelConfig>>],
     [job_name |-> "a", journal |-> FullJournal,
      pipeline_stages |-> MixedStages, relabel_configs |-> <<RelabelConfig>>],
     [job_name |-> "b", static_configs |-> StaticConfigsOfLen(MaxStatic), journal |-> FullJournal]}

FullDocuments ==
    Documents(SeqsUpTo(ClientChoices, MaxClients), SeqsUpTo(FullJobs, MaxJobs))

InitFull == InitOn(FullDocuments)

SpecFull == InitFull /\ [][Next]_vars

----------------------------------------------------------------------------
(* Vocabulary of the properties *)

Done == pc = "done"
Positions == 1..Len(alloy_components)
JobIndices == 0..(Len(ScrapeConfigs) - 1)
Job(j) == ScrapeConfigs[j + 1]

\* the loop of _process_scrape_configs is past the job at 0-based position j
Processed(j) == pc = "done" \/ (pc = "process_scrape_configs" /\ idx > j)

JobPositions(j) == {k \in Positions : origin[k] = <<"scrape_configs", j>>}

RECURSIVE SegmentFrom(_, _)
SegmentFrom(j, k) ==
    IF k > Len(alloy_components) THEN <<>>
    ELSE (IF origin[k] = <<"scrape_configs", j>> THEN <<alloy_components[k]>> ELSE <<>>)
             \o SegmentFrom(j, k + 1)

\* the components built from the job at 0-based position j, in list order
Segment(j) == SegmentFrom(j, 1)

OfType(components, type) == SelectSeq(components, LAMBDA c : c.type = type)

\* the forward targets of a component, as strings
ForwardTo(component) ==
    LET targets == Get(component.config, "forward_to").v
    IN  [k \in 1..Len(targets) |-> targets[k].v[1]]

NameOf(job) == IF "job_name" \in DOMAIN job THEN job.job_name ELSE "unknown"
HasMechanism(job) == "static_configs" \in DOMAIN job \/ "journal" \in DOMAIN job
HasBadSink == \E k \in 1..Len(Clients) : "url" \notin DOMAIN Clients[k]
NonEmptyKey(job, key) == key \in DOMAIN job /\ job[key] # <<>>

ExpectedSinkIds == <<"default", "client_1", "client_2", "client_3">>
ExpectedSuffixes == <<"", "_1", "_2", "_3">>

\* a stage list without its metrics stages, also inside match groups
RECURSIVE WithoutMetrics(_)
WithoutMetrics(stages) ==
    IF stages = <<>> THEN <<>>
    ELSE LET stage == stages[1]
         IN  (IF "metrics" \in DOMAIN stage THEN <<>>
              ELSE IF "match" \in DOMAIN stage /\ "stages" \in DOMAIN stage.match
              THEN <<[match |-> [stage.match EXCEPT !.stages = WithoutMetrics(@)]]>>
              ELSE <<stage>>)
                 \o WithoutMetrics(Tail(stages))

\* the kind of a stage: its one key
KindOf(stage) == CHOOSE kind \in DOMAIN stage : TRUE

SupportedKinds == {"regex", "json", "labels", "output", "template"}

ExpectedStageTypes(stages) ==
    LET kept == SelectSeq(stages, LAMBDA stage : KindOf(stage) \in SupportedKinds)
    IN  [k \in 1..Len(kept) |-> "stage." \o KindOf(kept[k])]

StageTypes(component) ==
    LET stages == Get(component.config, "stages").v
    IN  [k \in 1..Len(stages) |-> Get(stages[k].v, "type").v[1]]

\* the list migrate() builds for given clients and jobs
RECURSIVE JobsComponents(_)
JobsComponents(jobs) ==
    IF jobs = <<>> THEN <<>>
    ELSE ScrapeConfigComponents(jobs[1]) \o JobsComponents(Tail(jobs))

ComponentsOfDocument(clients, jobs) ==
    [k \in 1..Len(clients) |-> ClientComponent(clients[k], k - 1)] \o JobsComponents(jobs)

\* one sink and one journal job with stages and relabel rules
C5_Scenario ==
    /\ Len(Clients) = 1
    /\ Len(ScrapeConfigs) = 1
    /\ "journal" \in DOMAIN Job(0)
    /\ "static_configs" \notin DOMAIN Job(0)
    /\ NonEmptyKey(Job(0), "pipeline_stages")
    /\ NonEmptyKey(Job(0), "relabel_configs")

----------------------------------------------------------------------------
(* C1: after migrate, no two components of the same kind share an          *)
(* identifier.                                                             *)
C1_NoSharedIdentifier ==
    Done =>
        \A i, k \in Positions :
            (i # k /\ alloy_components[i].type = alloy_components[k].type)
                => alloy_components[i].id # alloy_components[k].id

----------------------------------------------------------------------------
(* C2: once _process_clients has returned, the write-sinks are exactly the *)
(* first n components, one per client in input order, with ids "default",  *)
(* "client_1", "client_2", ..., whatever the jobs are.                     *)
C2_SinkIds ==
    pc \in {"process_scrape_configs", "done"} =>
        LET n == Len(Clients)
        IN  /\ Len(alloy_components) >= n
            /\ \A k \in 1..n :
                  /\ alloy_components[k].type = "loki.write"
                  /\ alloy_components[k].id = ExpectedSinkIds[k]
                  /\ Get(Get(alloy_components[k].config, "endpoint").v, "url") = S(Clients[k].url)
            /\ \A k \in Positions : alloy_components[k].type = "loki.write" => k <= n

C2_Witness ==
    /\ Done
    /\ Len(Clients) = 2
    /\ Len(ScrapeConfigs) = 2
    /\ Len(alloy_components) > 2
    /\ alloy_components[2].id = "client_1"

----------------------------------------------------------------------------
(* C3: a processed job with m static_configs entries has exactly m         *)
(* file-discovery and m file-source components, and the pair of the entry  *)
(* at 0-based position N has id jobname (N = 0) or jobname_N.              *)
C3_StaticPairs ==
    \A j \in JobIndices :
        (Processed(j) /\ "static_configs" \in DOMAIN Job(j)) =>
            LET m == Len(Job(j).static_configs)
                discoveries == OfType(Segment(j), "local.file_match")
                sources == OfType(Segment(j), "loki.source.file")
            IN  /\ Len(discoveries) = m
                /\ Len(sources) = m
                /\ \A N \in 0..(m - 1) :
                      /\ discoveries[N + 1].id = NameOf(Job(j)) \o ExpectedSuffixes[N + 1]
                      /\ sources[N + 1].id = discoveries[N + 1].id
                      /\ Get(sources[N + 1].config, "targets")
                            = S("local.file_match." \o discoveries[N + 1].id \o ".targets")

C3_Witness ==
    /\ Done
    /\ \E j \in JobIndices :
          /\ "static_configs" \in DOMAIN Job(j)
          /\ Len(Job(j).static_configs) = 2
          /\ Len(OfType(Segment(j), "local.file_match")) = 2
          /\ OfType(Segment(j), "local.file_match")[2].id = "a_1"

----------------------------------------------------------------------------
(* C4: a processed journal job with a non-empty relabel_configs has one    *)
(* relabel component <job>_relabel forwarding to the journal's original    *)
(* target (the job's processing component when pipeline_stages is present  *)
(* and non-empty, else the default sink), and its journal source forwards  *)
(* only to that relabel component; with relabel_configs absent or empty    *)
(* there is no relabel component and the journal source keeps its target.  *)
C4_RelabelWiring ==
    \A j \in JobIndices :
        (Processed(j) /\ "journal" \in DOMAIN Job(j)) =>
            LET name == NameOf(Job(j))
                staged == NonEmptyKey(Job(j), "pipeline_stages")
                original == IF staged THEN "loki.process." \o name \o ".receiver"
                            ELSE "loki.write.default.receiver"
                relabels == OfType(Segment(j), "loki.relabel")
                journals == OfType(Segment(j), "loki.source.journal")
                processes == OfType(Segment(j), "loki.process")
            IN  /\ Len(journals) = 1
                /\ journals[1].id = name
                /\ Len(processes) = (IF staged THEN 1 ELSE 0)
                /\ staged => processes[1].id = name
                /\ IF NonEmptyKey(Job(j), "relabel_configs")
                   THEN /\ Len(relabels) = 1
                        /\ relabels[1].id = name \o "_relabel"
                        /\ ForwardTo(relabels[1]) = <<original>>
                        /\ Len(Get(relabels[1].config, "_rules").v) = Len(Job(j).relabel_configs)
                        /\ ForwardTo(journals[1]) = <<"loki.relabel." \o name \o "_relabel.receiver">>
                   ELSE /\ Len(relabels) = 0
                        /\ ForwardTo(journals[1]) = <<original>>

C4_Witness ==
    /\ Done
    /\ \E j \in JobIndices :
          /\ "journal" \in DOMAIN Job(j)
          /\ NonEmptyKey(Job(j), "relabel_configs")
          /\ NonEmptyKey(Job(j), "pipeline_stages")
          /\ Len(OfType(Segment(j), "loki.relabel")) = 1
          /\ ForwardTo(OfType(Segment(j), "loki.relabel")[1]) = <<"loki.process.a.receiver">>
    /\ \E j \in JobIndices :
          /\ "journal" \in DOMAIN Job(j)
          /\ "relabel_configs" \in DOMAIN Job(j)
          /\ Job(j).relabel_configs = <<>>
          /\ Len(OfType(Segment(j), "loki.relabel")) = 0

----------------------------------------------------------------------------
(* C5: one sink and one journal job with non-empty pipeline_stages and     *)
(* non-empty relabel_configs give exactly four components, in the order    *)
(* write-sink, relabel, journal source (forwarding to the relabel          *)
(* component), processing component (forwarding to the write-sink).        *)
C5_FourComponents ==
    (Done /\ C5_Scenario) =>
        LET name == NameOf(Job(0))
        IN  /\ [k \in Positions |-> alloy_components[k].type]
                  = <<"loki.write", "loki.relabel", "loki.source.journal", "loki.process">>
            /\ [k \in Positions |-> alloy_components[k].id]
                  = <<"default", name \o "_relabel", name, name>>
            /\ ForwardTo(alloy_components[3]) = <<"loki.relabel." \o name \o "_relabel.receiver">>
            /\ ForwardTo(alloy_components[4]) = <<"loki.write.default.receiver">>

C5_Witness ==
    /\ Done
    /\ C5_Scenario
    /\ Len(alloy_components) = 4
    /\ alloy_components[2].type = "loki.relabel"

----------------------------------------------------------------------------
(* C6: a metrics stage, top-level or nested in a match group, leaves no    *)
(* output: the stages a component carries are those of the same list with  *)
(* its metrics stages removed (the other stages translate normally).       *)
C6_MetricsStageLeavesNoOutput ==
    \A j \in JobIndices :
        (Processed(j) /\ "pipeline_stages" \in DOMAIN Job(j)) =>
            LET kept == WithoutMetrics(Job(j).pipeline_stages)
                text == Str(ConvertPipelineStages(kept))
                seg == Segment(j)
            IN  \A k \in 1..Len(seg) :
                    /\ seg[k].type = "loki.source.file" =>
                          IF Truthy(text)
                          THEN Has(seg[k].config, "stages") /\ Get(seg[k].config, "stages") = text
                          ELSE ~Has(seg[k].config, "stages")
                    /\ seg[k].type = "loki.process" =>
                          Get(seg[k].config, "stages") = Lst(ConvertPipelineStagesForProcess(kept))

----------------------------------------------------------------------------
(* C8: the stage list of a processing component is the order-preserving    *)
(* subsequence of the job's pipeline_stages of kind regex, json, labels,   *)
(* output or template; match, metrics and unrecognized stages are left out *)
(* without an error, and the later jobs are still translated.              *)
C8_StructuredSubsequence ==
    /\ pc # "failed"
    /\ \A j \in JobIndices :
          (Processed(j) /\ "journal" \in DOMAIN Job(j) /\ NonEmptyKey(Job(j), "pipeline_stages")) =>
              LET processes == OfType(Segment(j), "loki.process")
              IN  /\ Len(processes) = 1
                  /\ Get(processes[1].config, "stages").t = "list"
                  /\ StageTypes(processes[1]) = ExpectedStageTypes(Job(j).pipeline_stages)
    /\ Done => \A j \in JobIndices :
          /\ "static_configs" \in DOMAIN Job(j) =>
                Len(OfType(Segment(j), "loki.source.file")) = Len(Job(j).static_configs)
          /\ "journal" \in DOMAIN Job(j) =>
                Len(OfType(Segment(j), "loki.source.journal")) = 1

C8_Witness ==
    /\ Done
    /\ Len(ScrapeConfigs) = 2
    /\ "journal" \in DOMAIN Job(0)
    /\ Len(Job(0).pipeline_stages) = 3
    /\ KindOf(Job(0).pipeline_stages[1]) = "metrics"
    /\ KindOf(Job(0).pipeline_stages[2]) = "timestamp"
    /\ StageTypes(OfType(Segment(0), "loki.process")[1]) = <<"stage.regex">>
    /\ Len(Segment(1)) = 2

----------------------------------------------------------------------------
(* C7: when a sink lacks its url, migrate never returns a document and     *)
(* ends in failure; a document is returned only by a run that processed    *)
(* every sink and every job.                                               *)
C7_FailsOutright ==
    /\ HasBadSink =>
          /\ result = NoDocument
          /\ pc \in {"process_clients", "failed"}
          /\ pc = "failed" \/ ENABLED ProcessClient
    /\ result # NoDocument =>
          /\ Done
          /\ \A k \in 1..Len(Clients) : \E i \in Positions : origin[i] = <<"clients", k - 1>>
          /\ result = GenerateAlloyConfigText(alloy_components)

C7_Witness ==
    /\ pc = "failed"
    /\ result = NoDocument
    /\ Len(alloy_components) = 1
    /\ Len(Clients) = 2
    /\ \E j \in JobIndices : HasMechanism(Job(j))

----------------------------------------------------------------------------
(* C9: a job with neither static_configs nor journal contributes no        *)
(* component and no error, and the built list is the one of the document   *)
(* without that job.                                                       *)
C9_IdleJobIsAbsent ==
    /\ \A j \in JobIndices : ~HasMechanism(Job(j)) => JobPositions(j) = {}
    /\ pc = "failed" => HasBadSink
    /\ Done => alloy_components
                  = ComponentsOfDocument(Clients, SelectSeq(ScrapeConfigs, HasMechanism))

C9_Witness ==
    /\ Done
    /\ Len(Clients) = 1
    /\ Len(ScrapeConfigs) = 2
    /\ ~HasMechanism(Job(0))
    /\ HasMechanism(Job(1))
    /\ Len(alloy_components) = 3

----------------------------------------------------------------------------
(* C10: write-sinks precede job components, the components of job i        *)
(* precede those of job j for i < j, and a static job's components are its *)
(* pairs in static_configs order, each discovery directly before its       *)
(* source.                                                                 *)
C10_SourceOrder ==
    /\ \A i, k \in Positions :
          i < k =>
              \/ origin[i][1] = "clients" /\ origin[k][1] = "scrape_configs"
              \/ origin[i][1] = "clients" /\ origin[k][1] = "clients" /\ origin[i][2] < origin[k][2]
              \/ /\ origin[i][1] = "scrape_configs"
                 /\ origin[k][1] = "scrape_configs"
                 /\ origin[i][2] <= origin[k][2]
    /\ \A k \in Positions :
          (alloy_components[k].type = "loki.write") <=> (origin[k][1] = "clients")
    /\ \A j \in JobIndices :
          (Processed(j) /\ "static_configs" \in DOMAIN Job(j)) =>
              LET seg == Segment(j)
                  m == Len(Job(j).static_configs)
              IN  /\ Len(seg) >= 2 * m
                  /\ \A N \in 0..(m - 1) :
                        /\ seg[2 * N + 1].type = "local.file_match"
                        /\ seg[2 * N + 1].id = NameOf(Job(j)) \o ExpectedSuffixes[N + 1]
                        /\ Len(Get(seg[2 * N + 1].config, "path_targets").v)
                              = Len(GetOr(Job(j).static_configs[N + 1], "targets", <<>>))
                        /\ seg[2 * N + 2].type = "loki.source.file"
                        /\ seg[2 * N + 2].id = seg[2 * N + 1].id

C10_Witness ==
    /\ Done
    /\ Len(Clients) = 2
    /\ Len(ScrapeConfigs) = 2
    /\ "static_configs" \in DOMAIN Job(0)
    /\ Len(Job(0).static_configs) = 2
    /\ "journal" \in DOMAIN Job(1)
    /\ [k \in Positions |-> alloy_components[k].type]
          = <<"loki.write", "loki.write", "local.file_match", "loki.source.file",
              "local.file_match", "loki.source.file", "loki.source.journal">>

----------------------------------------------------------------------------
(* C11: for every static_configs entry of a processed job, the discovery   *)
(* component holds one path-target per element of targets, in order, each  *)
(* with __address__ = that target, every label of the entry, and no other  *)
(* key; the paired source refers to the discovery's targets output and     *)
(* forwards to the default sink's receiver; one sink and the job "app"     *)
(* with one target and the label env=prod give exactly three components.   *)
C11_PathTargets ==
    /\ \A j \in JobIndices :
          (Processed(j) /\ "static_configs" \in DOMAIN Job(j)) =>
              LET seg == Segment(j)
              IN  \A N \in 0..(Len(Job(j).static_configs) - 1) :
                      LET entry == Job(j).static_configs[N + 1]
                          targets == GetOr(entry, "targets", <<>>)
                          labels == GetOr(entry, "labels", <<>>)
                          discovery == seg[2 * N + 1]
                          source == seg[2 * N + 2]
                          path_targets == Get(discovery.config, "path_targets").v
                      IN  /\ discovery.type = "local.file_match"
                          /\ Len(path_targets) = Len(targets)
                          /\ \A t \in 1..Len(targets) :
                                LET path_target == path_targets[t].v
                                IN  /\ Has(path_target, "__address__")
                                    /\ Get(path_target, "__address__") = S(targets[t])
                                    /\ \A l \in 1..Len(labels) :
                                          /\ Has(path_target, labels[l][1])
                                          /\ Get(path_target, labels[l][1]) = S(labels[l][2])
                                    /\ \A i \in 1..Len(path_target) :
                                          \/ path_target[i][1] = "__address__"
                                          \/ Has(labels, path_target[i][1])
                          /\ source.type = "loki.source.file"
                          /\ source.id = discovery.id
                          /\ Get(source.config, "targets")
                                = S("local.file_match." \o discovery.id \o ".targets")
                          /\ ForwardTo(source) = <<"loki.write.default.receiver">>
    /\ (/\ Done
        /\ Clients = <<GoodClient>>
        /\ ScrapeConfigs = <<[job_name |-> "app",
                              static_configs |-> <<[targets |-> <<"localhost:9080">>,
                                                    labels |-> EnvLabels]>>]>>)
          => /\ [k \in Positions |-> <<alloy_components[k].type, alloy_components[k].id>>]
                   = << <<"loki.write", "default">>, <<"local.file_match", "app">>,
                        <<"loki.source.file", "app">> >>
             /\ Get(alloy_components[2].config, "path_targets")
                   = Lst(<<Dct(<< <<"__address__", S("localhost:9080")>>,
                                  <<"env", S("prod")>> >>)>>)
             /\ alloy_components[3].config
                   = << <<"targets", S("local.file_match.app.targets")>>,
                        <<"forward_to", Lst(<<S("loki.write.default.receiver")>>)>> >>

----------------------------------------------------------------------------
(* Reading the blocks of an inline stages text *)

\* s.lstrip(' ')
RECURSIVE TrimLeft(_)
TrimLeft(s) ==
    IF Len(s) > 0 /\ SubSeq(s, 1, 1) = " " THEN TrimLeft(SubSeq(s, 2, Len(s))) ELSE s

EndsWith(s, suffix) ==
    Len(s) >= Len(suffix) /\ SubSeq(s, Len(s) - Len(suffix) + 1, Len(s)) = suffix

MaxOf(set) == CHOOSE m \in set : \A n \in set : n <= m

\* nothing read yet: no open block, no match block seen, no stage block seen
NoBlocks == [stack |-> <<>>, fields |-> <<>>, levels |-> 0]

\* one line read: stack holds the open blocks (-1 a 'stage {' block, k > 0 the
\* k-th match block of the text, 0 any other), fields[k] the fields written
\* directly in the k-th match block, levels the deepest nesting of stage blocks
ScanLine(line, st) ==
    IF EndsWith(line, "{") THEN
        IF line \in {"match {", "stage.match {"}
        THEN [st EXCEPT !.fields = Append(@, {}), !.stack = Append(@, Len(st.fields) + 1)]
        ELSE IF line = "stage {"
        THEN LET stack == Append(st.stack, -1)
                 open == Cardinality({k \in 1..Len(stack) : stack[k] = -1})
             IN  [st EXCEPT !.stack = stack, !.levels = MaxOf({@, open})]
        ELSE [st EXCEPT !.stack = Append(@, 0)]
    ELSE IF line = "}" THEN [st EXCEPT !.stack = SubSeq(@, 1, Len(@) - 1)]
    ELSE IF st.stack # <<>> /\ st.stack[Len(st.stack)] > 0
    THEN [st EXCEPT !.fields[st.stack[Len(st.stack)]] =
                        @ \cup {f \in MatchFields : StartsWith(line, f \o " = ")}]
    ELSE st

RECURSIVE ScanBlocks(_, _)
ScanBlocks(lines, st) ==
    IF lines = <<>> THEN st
    ELSE ScanBlocks(Tail(lines), ScanLine(TrimLeft(lines[1]), st))

NestedMatchBodies(match) ==
    LET stages == GetOr(match, "stages", <<>>)
        nested == SelectSeq(stages, LAMBDA stage : "match" \in DOMAIN stage)
    IN  [k \in 1..Len(nested) |-> nested[k].match]

\* the depth the nested steps of a match step reach
RECURSIVE Depth(_)
Depth(match) ==
    IF GetOr(match, "stages", <<>>) = <<>> THEN 0
    ELSE LET nested == NestedMatchBodies(match)
         IN  1 + MaxOf({0} \cup {Depth(nested[k]) : k \in 1..Len(nested)})

\* the kinds _convert_single_stage has a text for
InlineKinds == {"match", "regex", "json", "labels", "metrics", "template", "output"}

\* the depth reached by the nested steps that have an inline translation
RECURSIVE TranslatedDepth(_)
TranslatedDepth(match) ==
    LET stages == GetOr(match, "stages", <<>>)
        nested == NestedMatchBodies(match)
    IN  IF \A k \in 1..Len(stages) : KindOf(stages[k]) \notin InlineKinds THEN 0
        ELSE 1 + MaxOf({0} \cup {TranslatedDepth(nested[k]) : k \in 1..Len(nested)})

\* the fields of a match step and of the match steps nested in it, in source order
RECURSIVE FieldsInOrder(_)
RECURSIVE FieldsOfAll(_)
FieldsOfAll(matches) ==
    IF matches = <<>> THEN <<>>
    ELSE FieldsInOrder(matches[1]) \o FieldsOfAll(Tail(matches))

FieldsInOrder(match) ==
    <<DOMAIN match \cap MatchFields>> \o FieldsOfAll(NestedMatchBodies(match))

\* the job at 0-based position j has one pipeline stage, a match step
OneMatchJob(j) ==
    /\ "static_configs" \in DOMAIN Job(j)
    /\ "pipeline_stages" \in DOMAIN Job(j)
    /\ Len(Job(j).pipeline_stages) = 1
    /\ "match" \in DOMAIN Job(j).pipeline_stages[1]

\* the blocks of the stages text of the file sources of the job at position j
MatchScans(j) ==
    LET sources == OfType(Segment(j), "loki.source.file")
    IN  [k \in 1..Len(sources) |-> ScanBlocks(Get(sources[k].config, "stages").v, NoBlocks)]

----------------------------------------------------------------------------
(* C12, as claimed: the inline text of a match step whose nested steps     *)
(* reach depth D has exactly D levels of nested stage blocks, and each of  *)
(* selector, pipeline_name and action is written in a match block exactly  *)
(* when that match step has it.                                            *)
C12_LevelsEqualDepth ==
    \A j \in JobIndices :
        (Processed(j) /\ OneMatchJob(j)) =>
            LET match == Job(j).pipeline_stages[1].match
                scans == MatchScans(j)
            IN  \A k \in 1..Len(scans) :
                    /\ scans[k].stack = <<>>
                    /\ scans[k].levels = Depth(match)
                    /\ scans[k].fields = FieldsInOrder(match)

(* C12, amended: the levels of nested stage blocks are the depth reached   *)
(* by the nested steps that have an inline translation (a match step whose *)
(* stages list is empty or holds only unrecognized kinds gets no stage     *)
(* block); the fields are written exactly when present in the match step.  *)
C12_LevelsEqualTranslatedDepth ==
    \A j \in JobIndices :
        (Processed(j) /\ OneMatchJob(j)) =>
            LET match == Job(j).pipeline_stages[1].match
                scans == MatchScans(j)
            IN  /\ Len(scans) = Len(Job(j).static_configs)
                /\ \A k \in 1..Len(scans) :
                      /\ scans[k].stack = <<>>
                      /\ scans[k].levels = TranslatedDepth(match)
                      /\ scans[k].fields = FieldsInOrder(match)

C12_Witness ==
    /\ Done
    /\ OneMatchJob(0)
    /\ Depth(Job(0).pipeline_stages[1].match) = 2
    /\ MatchScans(0)[1].levels = 2
    /\ MatchScans(0)[1].fields = <<MatchFields, {"selector", "action"}>>

----------------------------------------------------------------------------
(* Reading the attribute of a labels-class key *)

LabelKeys == {"labels", "external_labels"}
Indents == {0, 2, 4}

\* a = "x", b = "y", ...
RECURSIVE LabelItemsText(_)
LabelItemsText(pairs) ==
    IF pairs = <<>> THEN ""
    ELSE pairs[1][1] \o " = \"" \o pairs[1][2] \o "\""
             \o (IF Len(pairs) > 1 THEN ", " ELSE "") \o LabelItemsText(Tail(pairs))

\* the single-line brace form
OneLineAttribute(key, pairs, indent) ==
    IF pairs = <<>> THEN <<Spaces(indent) \o key \o " = {}">>
    ELSE <<Spaces(indent) \o key \o " = { " \o LabelItemsText(pairs) \o " }">>

\* the brace form with the items on a line of their own
ThreeLineAttribute(key, pairs, indent) ==
    IF pairs = <<>> THEN <<Spaces(indent) \o key \o " = {}">>
    ELSE <<Spaces(indent) \o key \o " = {",
           Spaces(indent + 2) \o LabelItemsText(pairs) \o ",",
           Spaces(indent) \o "}">>

\* the lines occur in the text, one after the other
Contains(text, lines) ==
    \E i \in 0..(Len(text) - Len(lines)) : SubSeq(text, i + 1, i + Len(lines)) = lines

\* the journal jobs with a labels map, once processed
LabelledJournals ==
    {j \in JobIndices : /\ Processed(j)
                        /\ "journal" \in DOMAIN Job(j)
                        /\ "labels" \in DOMAIN Job(j).journal}

\* the labels value the journal source of job j carries
JournalLabels(j) == Get(OfType(Segment(j), "loki.source.journal")[1].config, "labels")

----------------------------------------------------------------------------
(* C13, as claimed: a map under labels or external_labels is formatted as  *)
(* one line, `key = {}` when empty and `key = { a = "x", b = "y" }`        *)
(* otherwise, at any indent.                                               *)
C13_OneLine ==
    \A j \in LabelledJournals : \A key \in LabelKeys : \A indent \in Indents :
        LET lines == FormatConfigValue(key, JournalLabels(j), indent)
        IN  /\ Len(lines) = 1
            /\ lines = OneLineAttribute(key, Job(j).journal.labels, indent)

(* C13, amended: the empty map is formatted as the one line `key = {}`; a  *)
(* non-empty map as three lines, `key = {`, the items comma-joined with a  *)
(* trailing comma and two more spaces of indent, and `}`; the emitted      *)
(* document holds these lines for each journal's labels and the one line   *)
(* `external_labels = {}` for each sink.                                   *)
C13_OneLineOnlyWhenEmpty ==
    /\ \A j \in LabelledJournals : \A key \in LabelKeys : \A indent \in Indents :
          LET pairs == Job(j).journal.labels
              lines == FormatConfigValue(key, JournalLabels(j), indent)
          IN  /\ Len(lines) = (IF pairs = <<>> THEN 1 ELSE 3)
              /\ lines = ThreeLineAttribute(key, pairs, indent)
    /\ Done =>
          /\ \A j \in LabelledJournals :
                Contains(result, ThreeLineAttribute("labels", Job(j).journal.labels, 2))
          /\ Len(Clients) > 0 => Contains(result, <<"  external_labels = {}">>)

C13_Witness ==
    /\ Done
    /\ \E j \in LabelledJournals : Len(Job(j).journal.labels) = 3
    /\ \E j \in LabelledJournals : Len(Job(j).journal.labels) = 0
    /\ Contains(result, <<"  labels = {", "    a = \"x\", b = \"y\", c = \"z\",", "  }">>)
    /\ Contains(result, <<"  labels = {}">>)

----------------------------------------------------------------------------
(* C14: no step of migrate changes the source document: promtail_config,   *)
(* with every nested client, labels map, relabel rule and pipeline stage,  *)
(* stays what it was before the call, whether migrate returns or fails.    *)
C14_DocumentUnchanged == [][promtail_config' = promtail_config]_vars

C14_Witness ==
    /\ Done
    /\ Len(ScrapeConfigs) = 2
    /\ "static_configs" \in DOMAIN Job(0)
    /\ "pipeline_stages" \in DOMAIN Job(0)
    /\ Len(Job(0).static_configs) = 1
    /\ "labels" \in DOMAIN Job(0).static_configs[1]
    /\ Job(0).static_configs[1].labels = << <<"env", "prod">> >>
    /\ Get(Segment(0)[1].config, "path_targets")
          = Lst(<<Dct(<< <<"__address__", S("localhost:9080")>>, <<"env", S("prod")>> >>)>>)
    /\ "journal" \in DOMAIN Job(1)
    /\ "labels" \in DOMAIN Job(1).journal
    /\ Job(1).journal.labels = << <<"job", "systemd-journal">> >>
    /\ "relabel_configs" \in DOMAIN Job(1)
    /\ Job(1).relabel_configs = <<RelabelConfig>>
    /\ Len(OfType(Segment(1), "loki.relabel")) = 1
    /\ Get(OfType(Segment(1), "loki.source.journal")[1].config, "labels")
          = Dct(<< <<"job", S("systemd-journal")>> >>)

----------------------------------------------------------------------------
(* C15: when migrate has returned, every forward target K.ID.receiver and  *)
(* every targets reference K.ID.targets held by a component names a        *)
(* component of kind K and identifier ID of the built list, also when the  *)
(* clients list is empty or absent.                                        *)
C15_ReferentialIntegrity ==
    Done =>
        \A k \in Positions :
            LET config == alloy_components[k].config
                Present(ref, output) ==
                    \E i \in Positions :
                        ref = alloy_components[i].type \o "." \o alloy_components[i].id \o output
            IN  /\ Has(config, "forward_to") =>
                      \A t \in 1..Len(ForwardTo(alloy_components[k])) :
                          Present(ForwardTo(alloy_components[k])[t], ".receiver")
                /\ Has(config, "targets") =>
                      Present(Get(config, "targets").v[1], ".targets")

====
